---- MODULE Spec2Model ----
(***************************************************************************)
(* Model of memorymanager.py: a cluster of three Node objects, each a      *)
(* capacity-bounded table of (page_id, data, access_count) rows, the       *)
(* module-level loop that distributes pages by hash(page_id) % 3, and the  *)
(* GUI handler that looks a page up by scanning the nodes in order.        *)
(*                                                                         *)
(* A page identifier f'page_{i}' is modelled by the integer i, and a       *)
(* payload f'data_{d}' by the integer d.                                   *)
(***************************************************************************)
EXTENDS Integers, Sequences, FiniteSets

\* ---- program constants ----
NumNodes == 3
MemorySize == 3
NumPages == 10

\* ---- bounds of the model ----
NumIds == 2
NumData == 2
MaxSteps == 4
MaxTextLen == 2
MaxLongSteps == 6

\* Python's None, returned by Node.access_page on a page fault.
None == -1

Nodes == 0 .. (NumNodes - 1)
PageIds == 0 .. (NumIds - 1)
Data == 0 .. (NumData - 1)
BatchIds == 0 .. (NumPages - 1)

\* hash(page_id) is a signed integer fixed for the life of the process but
\* unknown before it starts (string hashing is seeded per process).  The
\* values below cover every residue modulo NumNodes and a negative hash.
HashVals == {-1, 0, 1}

VARIABLES
    hash,          \* the process's hash of each page identifier
    memory,        \* memory[n]: the rows of nodes[n].memory, in index order
    last,          \* the last call made and what it returned / displayed
    steps,         \* number of calls made so far
    pc,            \* iterations of the distribution loop made so far
    printed,       \* the "Node k full!" lines printed so far, as <<node_idx, page_id>>
    latest,        \* history: the data of the latest successful allocation of each id
    cipher         \* the security demo: its text, key, ciphertext and decrypted text

vars == <<hash, memory, last, steps, pc, printed, latest, cipher>>

\* ---- Node ----

\* A row of Node.memory.
Row(page_id, data, access_count) ==
    [page_id |-> page_id, data |-> data, access_count |-> access_count]

\* Node.__init__: an empty DataFrame in each of the nodes.
EmptyMemory == [n \in Nodes |-> <<>>]

\* Node.allocate_page, the guard: len(self.memory) < self.memory_size
HasRoomLeq(mem) == Len(mem) <= MemorySize
HasRoom(mem) == Len(mem) < MemorySize

\* Node.allocate_page, the write: self.memory.loc[len(self.memory)] = [page_id, data, 0]
AppendRowFront(mem, page_id, data) == <<Row(page_id, data, 0)>> \o mem
AppendRow(mem, page_id, data) == Append(mem, Row(page_id, data, 0))

\* Node.access_page: page = self.memory[self.memory['page_id'] == page_id]
\* (the index labels of all the matching rows)
PageIndex(mem, page_id) == {i \in DOMAIN mem : mem[i].page_id = page_id}

SetMin(S) == CHOOSE x \in S : \A y \in S : x <= y

\* Node.access_page, the write: self.memory.loc[page.index, 'access_count'] += 1
\* (every row whose label is in page.index)
BumpCountsDecr(mem, page_id) ==
    [i \in DOMAIN mem |->
        IF i \in PageIndex(mem, page_id)
        THEN [mem[i] EXCEPT !.access_count = @ - 1]
        ELSE mem[i]]
BumpCounts(mem, page_id) ==
    [i \in DOMAIN mem |->
        IF i \in PageIndex(mem, page_id)
        THEN [mem[i] EXCEPT !.access_count = @ + 1]
        ELSE mem[i]]

\* Node.access_page, the contents of the node after the call: written only
\* under `if not page.empty`
NodeAccessedEveryRow(mem, page_id) ==
    [i \in DOMAIN mem |-> [mem[i] EXCEPT !.access_count = @ + 1]]
NodeAccessedKeepsMatches(mem, page_id) ==
    IF PageIndex(mem, page_id) # {}
    THEN BumpCounts(SelectSeq(mem, LAMBDA r : r.page_id = page_id), page_id)
    ELSE mem
NodeAccessed(mem, page_id) ==
    IF PageIndex(mem, page_id) # {} THEN BumpCounts(mem, page_id) ELSE mem

\* Node.access_page, the result: page.iloc[0]['data'], or None when page is empty
AccessResult(mem, page_id) ==
    IF PageIndex(mem, page_id) # {}
    THEN mem[SetMin(PageIndex(mem, page_id))].data
    ELSE None

\* ---- page distribution ----

\* node_idx = hash(page_id) % 3
NodeIdxSpill(page_id) ==
    IF HasRoom(memory[hash[page_id] % NumNodes])
    THEN hash[page_id] % NumNodes
    ELSE (hash[page_id] + 1) % NumNodes
NodeIdx(page_id) == hash[page_id] % NumNodes

\* nodes[node_idx].allocate_page(page_id, data): its return value
AllocateReturns(page_id) == HasRoom(memory[NodeIdx(page_id)])

\* ... and the contents of the cluster after the call
AllocatedMemoryEvict(page_id, data) ==
    IF HasRoom(memory[NodeIdx(page_id)])
    THEN [memory EXCEPT ![NodeIdx(page_id)] = AppendRow(@, page_id, data)]
    ELSE [memory EXCEPT ![NodeIdx(page_id)] = AppendRow(Tail(@), page_id, data)]
AllocatedMemory(page_id, data) ==
    IF AllocateReturns(page_id)
    THEN [memory EXCEPT ![NodeIdx(page_id)] = AppendRow(@, page_id, data)]
    ELSE memory

\* pages = [(f'page_{i}', f'data_{i}') for i in range(10)], and its k-th element
Pages == [i \in BatchIds |-> <<i, i>>]
PageAtReversed(k) == Pages[NumPages - 1 - k]
PageAt(k) == Pages[k]

\* ---- MemoryManagerGUI.access_page ----

\* for node in nodes: data = node.access_page(page_id); if data is not None: ... return
\* The nodes whose access_page returns a value.
HitNodes(page_id) == {n \in Nodes : AccessResult(memory[n], page_id) # None}

\* The node at which the scan returns, or None when it runs to the end.
FoundNode(page_id) ==
    IF HitNodes(page_id) # {} THEN SetMin(HitNodes(page_id)) ELSE None

\* The nodes the scan calls access_page on: all of them up to the one it returns at.
Scanned(page_id) ==
    IF FoundNode(page_id) = None THEN Nodes
    ELSE {n \in Nodes : n <= FoundNode(page_id)}

\* The cluster after the scan.
AccessedMemoryAll(page_id) ==
    [n \in Nodes |->
        IF n \in Scanned(page_id)
        THEN [i \in DOMAIN memory[n] |->
                 [memory[n][i] EXCEPT !.access_count = @ + 1]]
        ELSE memory[n]]
AccessedMemory(page_id) ==
    [n \in Nodes |->
        IF n \in Scanned(page_id)
        THEN NodeAccessed(memory[n], page_id)
        ELSE memory[n]]

\* The data shown in result_label, or None for "not found (Page Fault)!"
AccessedData(page_id) ==
    IF FoundNode(page_id) = None
    THEN None
    ELSE AccessResult(memory[FoundNode(page_id)], page_id)

\* ---- state ----

\* The default of the key parameter of encrypt and decrypt.
DefaultKey == 85

\* The security demo before its button is pressed.
NoCipher == [stage |-> "idle", text |-> <<>>, key |-> DefaultKey,
             encrypted |-> <<>>, decrypted |-> <<>>]

NoCall == [op |-> "none", page_id |-> None, data |-> None, ok |-> FALSE, node |-> None]

AllocateCall(page_id, data) ==
    [op |-> "allocate", page_id |-> page_id, data |-> data,
     ok |-> AllocateReturns(page_id), node |-> NodeIdx(page_id)]

AccessCall(page_id) ==
    [op |-> "access", page_id |-> page_id, data |-> AccessedData(page_id),
     ok |-> (FoundNode(page_id) # None), node |-> FoundNode(page_id)]

\* if not nodes[node_idx].allocate_page(page_id, data): print(f"Node {node_idx} full! ...")
\* The lines printed so far, after an allocate call.
PrintedAfter(page_id) ==
    IF AllocateReturns(page_id)
    THEN printed
    ELSE Append(printed, <<NodeIdx(page_id), page_id>>)

\* The data of the latest successful allocation of each id, after an allocate call.
LatestAfter(page_id, data) ==
    IF AllocateReturns(page_id) THEN [latest EXCEPT ![page_id] = data] ELSE latest

TypeOK ==
    /\ memory \in [Nodes -> Seq([page_id : Int, data : Int, access_count : Nat])]
    /\ steps \in Nat
    /\ pc \in 0 .. NumPages
    /\ last.op \in {"none", "allocate", "access"}

\* A cluster of empty nodes, driven by arbitrary allocate and access calls.
Init ==
    /\ hash \in [PageIds -> HashVals]
    /\ memory = EmptyMemory
    /\ last = NoCall
    /\ steps = 0
    /\ pc = 0
    /\ printed = <<>>
    /\ latest = [p \in PageIds |-> None]
    /\ cipher = NoCipher

\* One iteration of the distribution loop on an arbitrary (page_id, data) pair.
AllocatePage(page_id, data) ==
    /\ steps < MaxSteps
    /\ memory' = AllocatedMemory(page_id, data)
    /\ last' = AllocateCall(page_id, data)
    /\ printed' = PrintedAfter(page_id)
    /\ latest' = LatestAfter(page_id, data)
    /\ steps' = steps + 1
    /\ pc' = pc + 1
    /\ UNCHANGED <<hash, cipher>>

\* The "Access Page" button with page_id in the entry field.
GuiAccessPage(page_id) ==
    /\ steps < MaxSteps
    /\ memory' = AccessedMemory(page_id)
    /\ last' = AccessCall(page_id)
    /\ steps' = steps + 1
    /\ UNCHANGED <<hash, pc, printed, latest, cipher>>

Next ==
    \/ \E page_id \in PageIds, data \in Data : AllocatePage(page_id, data)
    \/ \E page_id \in PageIds : GuiAccessPage(page_id)

Spec == Init /\ [][Next]_vars

\* ---- a longer session on the program's own pages ----

\* One iteration of the distribution loop on a pair of `pages`, taken in any
\* order and any number of times.
AllocateListedPage(page_id) ==
    /\ steps < MaxLongSteps
    /\ memory' = AllocatedMemory(Pages[page_id][1], Pages[page_id][2])
    /\ last' = AllocateCall(Pages[page_id][1], Pages[page_id][2])
    /\ printed' = PrintedAfter(Pages[page_id][1])
    /\ latest' = LatestAfter(Pages[page_id][1], Pages[page_id][2])
    /\ steps' = steps + 1
    /\ pc' = pc + 1
    /\ UNCHANGED <<hash, cipher>>

\* The "Access Page" button, later in the session.
GuiAccessListedPage(page_id) ==
    /\ steps < MaxLongSteps
    /\ memory' = AccessedMemory(page_id)
    /\ last' = AccessCall(page_id)
    /\ steps' = steps + 1
    /\ UNCHANGED <<hash, pc, printed, latest, cipher>>

NextLong ==
    \/ \E page_id \in PageIds : AllocateListedPage(page_id)
    \/ \E page_id \in PageIds : GuiAccessListedPage(page_id)

SpecLong == Init /\ [][NextLong]_vars

\* ---- the module-level run: the loop over the ten pages ----

InitBatch ==
    /\ hash \in [BatchIds -> HashVals]
    /\ memory = EmptyMemory
    /\ last = NoCall
    /\ steps = 0
    /\ pc = 0
    /\ printed = <<>>
    /\ latest = [p \in BatchIds |-> None]
    /\ cipher = NoCipher

\* for page_id, data in pages: one iteration, printing when the node is full
DistributePage ==
    /\ pc < NumPages
    /\ memory' = AllocatedMemory(PageAt(pc)[1], PageAt(pc)[2])
    /\ printed' = PrintedAfter(PageAt(pc)[1])
    /\ last' = AllocateCall(PageAt(pc)[1], PageAt(pc)[2])
    /\ latest' = LatestAfter(PageAt(pc)[1], PageAt(pc)[2])
    /\ pc' = pc + 1
    /\ UNCHANGED <<hash, steps, cipher>>

NextBatch == DistributePage

SpecBatch == InitBatch /\ [][NextBatch]_vars

\* ---- encrypt / decrypt ----

\* A text is a sequence of Unicode code points; bytes are integers 0 .. 255.
\* The code points below need one, one, two, three and four bytes in UTF-8;
\* the last is a lone surrogate, which a str can hold and UTF-8 cannot encode.
CodePoints == {65, 85, 233, 8364, 128512, 55296}

RECURSIVE SeqsUpTo(_, _)
SeqsUpTo(S, n) ==
    IF n = 0 THEN {<<>>}
    ELSE SeqsUpTo(S, n - 1)
         \cup {Append(t, c) : t \in {u \in SeqsUpTo(S, n - 1) : Len(u) = n - 1}, c \in S}

Texts == SeqsUpTo(CodePoints, MaxTextLen)

\* b ^ key on two bytes
RECURSIVE Xor(_, _)
Xor(a, b) ==
    IF a = 0 THEN b
    ELSE IF b = 0 THEN a
    ELSE (((a % 2) + (b % 2)) % 2) + 2 * Xor(a \div 2, b \div 2)

\* EncodeError stands for the UnicodeEncodeError that str.encode() raises on
\* a surrogate code point (U+D800 .. U+DFFF).
EncodeError == <<-2>>

\* str.encode(): the UTF-8 bytes of one code point, and of a text
Utf8Char(cp) ==
    IF cp >= 55296 /\ cp <= 57343 THEN EncodeError
    ELSE IF cp < 128 THEN <<cp>>
    ELSE IF cp < 2048 THEN <<192 + (cp \div 64), 128 + (cp % 64)>>
    ELSE IF cp < 65536
         THEN <<224 + (cp \div 4096), 128 + ((cp \div 64) % 64), 128 + (cp % 64)>>
    ELSE <<240 + (cp \div 262144), 128 + ((cp \div 4096) % 64),
           128 + ((cp \div 64) % 64), 128 + (cp % 64)>>

RECURSIVE Utf8Encode(_)
Utf8Encode(text) ==
    IF text = <<>> THEN <<>>
    ELSE IF Utf8Char(Head(text)) = EncodeError THEN EncodeError
    ELSE IF Utf8Encode(Tail(text)) = EncodeError THEN EncodeError
    ELSE Utf8Char(Head(text)) \o Utf8Encode(Tail(text))

\* bytes.decode(): the text of a UTF-8 byte sequence; DecodeError stands for
\* the UnicodeDecodeError raised on bytes that are not valid UTF-8.
DecodeError == <<-1>>

\* The length of the sequence a lead byte announces (0: not a lead byte).
LeadLen(b) ==
    IF b < 128 THEN 1
    ELSE IF b >= 194 /\ b <= 223 THEN 2
    ELSE IF b >= 224 /\ b <= 239 THEN 3
    ELSE IF b >= 240 /\ b <= 244 THEN 4
    ELSE 0

\* The code point carried by the first n bytes.
LeadCodePoint(bytes, n) ==
    IF n = 1 THEN bytes[1]
    ELSE IF n = 2 THEN (bytes[1] - 192) * 64 + (bytes[2] - 128)
    ELSE IF n = 3
         THEN (bytes[1] - 224) * 4096 + (bytes[2] - 128) * 64 + (bytes[3] - 128)
    ELSE (bytes[1] - 240) * 262144 + (bytes[2] - 128) * 4096
         + (bytes[3] - 128) * 64 + (bytes[4] - 128)

\* A well-formed first character: continuation bytes in 128 .. 191, shortest
\* form, no surrogate, at most U+10FFFF.
LeadValid(bytes, n) ==
    /\ n > 0
    /\ Len(bytes) >= n
    /\ \A i \in 2 .. n : bytes[i] >= 128 /\ bytes[i] <= 191
    /\ LeadCodePoint(bytes, n) >= 0
    /\ LeadCodePoint(bytes, n) <= 1114111
    /\ ~(LeadCodePoint(bytes, n) >= 55296 /\ LeadCodePoint(bytes, n) <= 57343)
    /\ Utf8Char(LeadCodePoint(bytes, n)) = SubSeq(bytes, 1, n)

RECURSIVE Utf8Decode(_)
Utf8Decode(bytes) ==
    IF bytes = <<>> THEN <<>>
    ELSE IF ~LeadValid(bytes, LeadLen(bytes[1])) THEN DecodeError
    ELSE IF Utf8Decode(SubSeq(bytes, LeadLen(bytes[1]) + 1, Len(bytes))) = DecodeError
         THEN DecodeError
    ELSE <<LeadCodePoint(bytes, LeadLen(bytes[1]))>>
         \o Utf8Decode(SubSeq(bytes, LeadLen(bytes[1]) + 1, Len(bytes)))

\* [b ^ key for b in ...]
XorBytesDefaultKey(bytes, key) == [i \in DOMAIN bytes |-> Xor(bytes[i], DefaultKey)]
XorBytes(bytes, key) == [i \in DOMAIN bytes |-> Xor(bytes[i], key)]

\* encrypt(data, key): np.array([b ^ key for b in data.encode()], dtype=np.uint8).tobytes()
\* (the exception of data.encode() leaves the function)
Encrypt(data, key) ==
    IF Utf8Encode(data) = EncodeError THEN EncodeError
    ELSE XorBytes(Utf8Encode(data), key)

\* decrypt(encrypted_data, key): bytes([b ^ key for b in ...]).decode()
DecryptDefaultKey(encrypted_data, key) == Utf8Decode(XorBytesDefaultKey(encrypted_data, key))
Decrypt(encrypted_data, key) == Utf8Decode(XorBytes(encrypted_data, key))

\* A text in the entry field and a key byte.
InitCipher ==
    /\ hash \in [PageIds -> {0}]
    /\ memory = EmptyMemory
    /\ last = NoCall
    /\ steps = 0
    /\ pc = 0
    /\ printed = <<>>
    /\ latest = [p \in PageIds |-> None]
    /\ \E text \in Texts, key \in 0 .. 255 :
           cipher = [NoCipher EXCEPT !.text = text, !.key = key]

\* encrypted = encrypt(data); an exception ends the handler there
EncryptStep ==
    /\ cipher.stage = "idle"
    /\ cipher' = IF Encrypt(cipher.text, cipher.key) = EncodeError
                 THEN [cipher EXCEPT !.stage = "error"]
                 ELSE [cipher EXCEPT !.stage = "encrypted",
                                     !.encrypted = Encrypt(cipher.text, cipher.key)]
    /\ UNCHANGED <<hash, memory, last, steps, pc, printed, latest>>

\* decrypted = decrypt(encrypted); an exception ends the handler there
DecryptStep ==
    /\ cipher.stage = "encrypted"
    /\ cipher' = IF Decrypt(cipher.encrypted, cipher.key) = DecodeError
                 THEN [cipher EXCEPT !.stage = "error"]
                 ELSE [cipher EXCEPT !.stage = "decrypted",
                                     !.decrypted = Decrypt(cipher.encrypted, cipher.key)]
    /\ UNCHANGED <<hash, memory, last, steps, pc, printed, latest>>

NextCipher == EncryptStep \/ DecryptStep

SpecCipher == InitCipher /\ [][NextCipher]_vars

\* ---- properties ----

\* The node an identifier is routed to, and where identifiers are stored.
RoutedNode(page_id) == hash[page_id] % NumNodes
Holds(n, page_id) == \E i \in DOMAIN memory[n] : memory[n][i].page_id = page_id
StoredAnywhere(page_id) == \E n \in Nodes : Holds(n, page_id)

\* C1 - capacity invariant: whatever allocate and access calls were made,
\* every node holds at most memory_size records.
CapacityInvariant == \A n \in Nodes : Len(memory[n]) <= MemorySize

\* A node is full and the last call, an allocation routed to it, was turned down.
CapacityWitness ==
    /\ last.op = "allocate"
    /\ ~last.ok
    /\ Len(memory[last.node]) = MemorySize

\* C2 - cross-node uniqueness: no identifier has records in two different
\* nodes, also when an identifier is allocated more than once.
CrossNodeUnique ==
    \A page_id \in DOMAIN hash : \A n, m \in Nodes :
        (Holds(n, page_id) /\ Holds(m, page_id)) => n = m

\* An identifier was stored twice and a second node holds another identifier.
CrossNodeWitness ==
    \E page_id \in DOMAIN hash, n, m \in Nodes :
        /\ n # m
        /\ Cardinality(PageIndex(memory[n], page_id)) >= 2
        /\ memory[m] # <<>>

\* C3 - lookup correctness as claimed: an access returns the data of the
\* latest successful allocation of the identifier, and reports a page fault
\* exactly when no allocation of it ever succeeded.
LookupReturnsLatest ==
    (last.op = "access") =>
        /\ last.data = latest[last.page_id]
        /\ last.ok <=> (latest[last.page_id] # None)

\* C4 - access accounting as claimed: an access that finds a match adds one
\* to the counter of the first matching record and changes no other record.
AccessBumpsFirstMatchOnly ==
    [][(last'.op = "access" /\ last'.ok) =>
        \E n \in Nodes : \E i \in DOMAIN memory[n] :
            /\ memory[n][i].page_id = last'.page_id
            /\ \A m \in Nodes : \A j \in DOMAIN memory[m] :
                   (memory[m][j].page_id = last'.page_id)
                       => (m > n \/ (m = n /\ j >= i))
            /\ \A m \in Nodes :
                   /\ Len(memory'[m]) = Len(memory[m])
                   /\ \A j \in DOMAIN memory[m] :
                          memory'[m][j] =
                              IF m = n /\ j = i
                              THEN [memory[m][j] EXCEPT !.access_count = @ + 1]
                              ELSE memory[m][j]]_vars

\* C5 - no spillover: an allocation whose routed node is full reports failure
\* and leaves the records of every node as they were.
NoSpillover ==
    [][(last'.op = "allocate"
        /\ Len(memory[RoutedNode(last'.page_id)]) >= MemorySize) =>
            (~last'.ok /\ memory' = memory)]_vars

\* An allocation was turned down while another node had free slots, and the
\* page is in no node.
NoSpilloverWitness ==
    /\ last.op = "allocate"
    /\ ~last.ok
    /\ Len(memory[RoutedNode(last.page_id)]) = MemorySize
    /\ ~StoredAnywhere(last.page_id)
    /\ \E m \in Nodes : Len(memory[m]) < MemorySize

\* C6 - first come, first served: at its turn page i of the batch is turned
\* down (and reported) when its routed node already holds memory_size
\* records and is stored otherwise; three nodes of three records never hold
\* more than nine of the ten pages.
FirstComeFirstServed ==
    [][(pc' = pc + 1) =>
        /\ IF Len(memory[RoutedNode(pc)]) >= MemorySize
           THEN /\ printed' = Append(printed, <<RoutedNode(pc), pc>>)
                /\ memory' = memory
           ELSE /\ printed' = printed
                /\ memory'[RoutedNode(pc)] =
                       Append(memory[RoutedNode(pc)], Row(pc, pc, 0))
                /\ \A n \in Nodes \ {RoutedNode(pc)} : memory'[n] = memory[n]
        /\ Len(memory'[0]) + Len(memory'[1]) + Len(memory'[2]) <= 9]_vars

\* The loop has run to its end, it turned an early page down and stored a
\* later one.
FirstComeWitness ==
    /\ pc = NumPages
    /\ \E i, j \in BatchIds :
           /\ i < j
           /\ \E k \in DOMAIN printed : printed[k][2] = i
           /\ ~StoredAnywhere(i)
           /\ StoredAnywhere(j)

\* C7 - page fault: an access to an identifier with no record in any node
\* reports not-found and leaves every record and counter as it was.
PageFaultNoEffect ==
    [][(last'.op = "access" /\ ~StoredAnywhere(last'.page_id)) =>
        (~last'.ok /\ last'.data = None /\ memory' = memory)]_vars

\* A page fault on a cluster that holds a record with a counted access.
PageFaultWitness ==
    /\ last.op = "access"
    /\ last.data = None
    /\ ~StoredAnywhere(last.page_id)
    /\ \E n \in Nodes : \E i \in DOMAIN memory[n] : memory[n][i].access_count > 0

\* C8 - global uniqueness as claimed: no two records of the cluster carry the
\* same identifier.
GloballyUniqueIds ==
    \A n, m \in Nodes : \A i \in DOMAIN memory[n] : \A j \in DOMAIN memory[m] :
        (memory[n][i].page_id = memory[m][j].page_id) => (n = m /\ i = j)

\* C9 - successful allocation: when the routed node has a free slot the call
\* succeeds, appends (id, data, 0) at the end of that node's records and
\* changes nothing else.
AllocationAppends ==
    [][(last'.op = "allocate"
        /\ Len(memory[RoutedNode(last'.page_id)]) < MemorySize) =>
            /\ last'.ok
            /\ memory'[RoutedNode(last'.page_id)] =
                   Append(memory[RoutedNode(last'.page_id)],
                          Row(last'.page_id, last'.data, 0))
            /\ \A n \in Nodes \ {RoutedNode(last'.page_id)} :
                   memory'[n] = memory[n]]_vars

\* A successful allocation put a fresh record behind one already accessed.
AllocationWitness ==
    /\ last.op = "allocate"
    /\ last.ok
    /\ Len(memory[last.node]) >= 2
    /\ memory[last.node][1].access_count >= 1
    /\ memory[last.node][Len(memory[last.node])] = Row(last.page_id, last.data, 0)

\* C10 - append-only records: across every step each node's records keep
\* their positions, identifiers and data, and no counter goes down.
RecordsStable ==
    [][\A n \in Nodes :
        /\ Len(memory'[n]) >= Len(memory[n])
        /\ \A i \in DOMAIN memory[n] :
               /\ memory'[n][i].page_id = memory[n][i].page_id
               /\ memory'[n][i].data = memory[n][i].data
               /\ memory'[n][i].access_count >= memory[n][i].access_count]_vars

\* A record accessed twice, with a record allocated behind it.
RecordsStableWitness ==
    \E n \in Nodes :
        /\ Len(memory[n]) >= 2
        /\ memory[n][1].access_count >= 2

\* C11 - cipher round trip: for every text given by its byte sequence and
\* every key byte, decrypting the encryption of the text under the same key
\* gives the text back; the two calls fail only on a text that has no byte
\* sequence (one with a lone surrogate).
CipherRoundTrip ==
    /\ (cipher.stage = "decrypted") => (cipher.decrypted = cipher.text)
    /\ (cipher.stage = "error") =>
           \E i \in DOMAIN cipher.text :
               cipher.text[i] >= 55296 /\ cipher.text[i] <= 57343

\* A text with a multi-byte character went through both steps under a key
\* that changes its bytes.
CipherWitness ==
    /\ cipher.stage = "decrypted"
    /\ cipher.key # 0
    /\ Len(cipher.text) >= 2
    /\ Len(cipher.encrypted) > Len(cipher.text)
    /\ cipher.encrypted # Utf8Encode(cipher.text)

\* C12 - the lookup scans the nodes in ascending order and stops at the first
\* hit: an access changes records in at most one node, the lowest-index node
\* holding the identifier, which is the node it reports; every other node,
\* in particular every node with a higher index, keeps its records.
ScanStopsAtFirstHit ==
    [][(last'.op = "access") =>
        /\ \A n \in Nodes :
               (memory'[n] # memory[n]) =>
                   /\ Holds(n, last'.page_id)
                   /\ \A m \in Nodes : Holds(m, last'.page_id) => n <= m
        /\ StoredAnywhere(last'.page_id) =>
               /\ Holds(last'.node, last'.page_id)
               /\ \A m \in Nodes : Holds(m, last'.page_id) => last'.node <= m]_vars

\* An access hit one node while another node held records of its own, which
\* the call left untouched.
ScanWitness ==
    /\ last.op = "access"
    /\ last.ok
    /\ \E i \in DOMAIN memory[last.node] : memory[last.node][i].access_count >= 1
    /\ \E m \in Nodes :
           /\ m # last.node
           /\ memory[m] # <<>>
           /\ \A j \in DOMAIN memory[m] : memory[m][j].access_count = 0

\* C13 - fullness is permanent: a node that holds memory_size records holds
\* memory_size records after every later call and turns down every allocation
\* routed to it, and a turned-down allocation leaves its routed node full; so
\* once a node has turned an allocation down (it is named in a printed line),
\* every later allocation routed to it is turned down, whatever calls were
\* made in between.
FullnessPermanent ==
    [][/\ \A n \in Nodes :
              (Len(memory[n]) = MemorySize) =>
                  /\ Len(memory'[n]) = MemorySize
                  /\ (last'.op = "allocate" /\ RoutedNode(last'.page_id) = n)
                         => ~last'.ok
       /\ (last'.op = "allocate" /\ ~last'.ok) =>
              Len(memory'[RoutedNode(last'.page_id)]) = MemorySize
       /\ \A k \in DOMAIN printed :
              (last'.op = "allocate" /\ RoutedNode(last'.page_id) = printed[k][1])
                  => ~last'.ok]_vars

\* A node filled up, its last record was accessed (so the access came after
\* the node was full), the node had already turned an allocation down, and
\* the last call, another allocation routed to it, was turned down as well.
FullnessWitness ==
    /\ last.op = "allocate"
    /\ ~last.ok
    /\ Len(memory[last.node]) = MemorySize
    /\ memory[last.node][MemorySize].access_count >= 1
    /\ Len(printed) >= 2
    /\ \A k \in DOMAIN printed : printed[k][1] = last.node

====
